---- MODULE Spec2Model ----
(***************************************************************************)
(* A model of pganonymizer/utils.py: the per-table anonymization pipeline  *)
(* (count, server-side cursor, staging table, chunked fetch, parallel row  *)
(* transformation, bulk load through data2csv and COPY, index, merge), the *)
(* exclude filter and the bulk encoder.                                    *)
(*                                                                         *)
(* Text is a sequence of one-character strings.  A value of a row is a     *)
(* record [kind, s, n]: kind "null" (None), "text" (str, characters s),    *)
(* "int" (the number n) or "dict" (the dict {"k": s}).                     *)
(***************************************************************************)
EXTENDS Integers, Sequences, FiniteSets, TLC

\* ------------------------------------------------------------ characters
BS == "\\"
TAB == "\t"
NL == "\n"
CR == "\r"
SP == " "
DQ == "\""

\* COPY_DB_DELIMITER: a control character (the unit separator)
COPY_DB_DELIMITER == "US"

\* quotechar='~' of the csv writer in data2csv
QUOTECHAR == "~"

\* lineterminator='\n' of the csv writer in data2csv
LINETERMINATOR == <<NL>>

\* null='\\N' handed to cursor.copy_from
COPY_NULL == <<BS, "N">>

\* ---------------------------------------------------------------- values
NULL == [kind |-> "null", s |-> <<>>, n |-> 0]

Text(s) == [kind |-> "text", s |-> s, n |-> 0]

Number(n) == [kind |-> "int", s |-> <<>>, n |-> n]

Dict(s) == [kind |-> "dict", s |-> s, n |-> 0]

\* every value taken to be true
AlwaysTrue(v) == TRUE

\* Python truthiness of a value: None, '', 0 and {} are false.  The dict
\* {"k": s} always has one member, so it is true.
Truthy(v) ==
    CASE v.kind = "null" -> FALSE
      [] v.kind = "text" -> v.s # <<>>
      [] v.kind = "int" -> v.n # 0
      [] OTHER -> TRUE

\* ------------------------------------------------------- string helpers
RECURSIVE Replace(_, _, _)
\* str.replace(old, new) for a one-character old
Replace(text, old, new) ==
    IF text = <<>> THEN <<>>
    ELSE (IF Head(text) = old THEN new ELSE <<Head(text)>>)
         \o Replace(Tail(text), old, new)

\* the characters str.strip() removes; the unit separator is one of them
IsSpace(c) == c \in {SP, TAB, NL, CR, "US"}

RECURSIVE LStrip(_)
LStrip(text) ==
    IF text # <<>> /\ IsSpace(Head(text)) THEN LStrip(Tail(text)) ELSE text

RECURSIVE RStrip(_)
RStrip(text) ==
    IF text # <<>> /\ IsSpace(text[Len(text)])
    THEN RStrip(SubSeq(text, 1, Len(text) - 1))
    ELSE text

\* str.strip()
Strip(text) == RStrip(LStrip(text))

Digit(d) == <<"0", "1", "2", "3", "4", "5", "6", "7", "8", "9">>[d + 1]

RECURSIVE Str(_)
\* str() of a non-negative integer
Str(n) == IF n < 10 THEN <<Digit(n)>> ELSE Str(n \div 10) \o <<Digit(n % 10)>>

\* ------------------------------------------------------------ data2csv
\* text.replace('\\', '\\\\').replace('\n', '\\n').replace('\r', '\\r').replace('\t', '\\t')
escape_str_replace(text) ==
    Replace(Replace(Replace(Replace(text, BS, <<BS, BS>>), NL, <<BS, "n">>),
                    CR, <<BS, "r">>), TAB, <<BS, "t">>)

\* json.dumps of the text of a string member
RECURSIVE JsonEscape(_)
JsonEscape(text) ==
    IF text = <<>> THEN <<>>
    ELSE LET c == Head(text)
         IN  (CASE c = DQ -> <<BS, DQ>>
                [] c = BS -> <<BS, BS>>
                [] c = NL -> <<BS, "n">>
                [] c = CR -> <<BS, "r">>
                [] c = TAB -> <<BS, "t">>
                [] c = COPY_DB_DELIMITER -> <<BS, "u", "0", "0", "1", "f">>
                [] OTHER -> <<c>>)
             \o JsonEscape(Tail(text))

\* json.dumps({"k": s})
JsonDumps(s) == <<"{", DQ, "k", DQ, ":", SP, DQ>> \o JsonEscape(s) \o <<DQ, "}">>

\* the val that data2csv appends to row_data for one value x
FieldVal(x) ==
    CASE x.kind = "null" -> COPY_NULL
      [] x.kind = "text" -> escape_str_replace(Strip(x.s))
      [] x.kind = "dict" -> escape_str_replace(JsonDumps(x.s))
      [] OTHER -> Str(x.n)

\* csv.writer, QUOTE_MINIMAL with doublequote: a field holding the delimiter,
\* the quotechar or a character of the lineterminator is wrapped in the
\* quotechar, every quotechar in it doubled
CsvNeedsQuote(field) ==
    \E i \in 1..Len(field) :
        \/ field[i] = COPY_DB_DELIMITER
        \/ field[i] = QUOTECHAR
        \/ \E j \in 1..Len(LINETERMINATOR) : field[i] = LINETERMINATOR[j]

CsvField(field, alone) ==
    IF CsvNeedsQuote(field) \/ (alone /\ field = <<>>)
    THEN <<QUOTECHAR>> \o Replace(field, QUOTECHAR, <<QUOTECHAR, QUOTECHAR>>)
         \o <<QUOTECHAR>>
    ELSE field

RECURSIVE CsvJoin(_, _)
CsvJoin(fields, alone) ==
    IF fields = <<>> THEN <<>>
    ELSE CsvField(Head(fields), alone)
         \o (IF Len(fields) > 1 THEN <<COPY_DB_DELIMITER>> ELSE <<>>)
         \o CsvJoin(Tail(fields), alone)

\* writer.writerow(row_data)
WriteRow(row_data) == CsvJoin(row_data, Len(row_data) = 1) \o LINETERMINATOR

RowData(row) == [i \in 1..Len(row) |-> FieldVal(row[i])]

RECURSIVE data2csv(_)
\* the contents of the buffer data2csv returns, for a sequence of rows
data2csv(data) ==
    IF data = <<>> THEN <<>>
    ELSE WriteRow(RowData(Head(data))) \o data2csv(Tail(data))

\* ------------------------------------------- the bulk loader (COPY ... FROM)
\* cursor.copy_from(new_data, table, sep=COPY_DB_DELIMITER, null='\\N') reads
\* the buffer in PostgreSQL's text format: a backslash takes the character
\* after it with it, so neither ends a line or a field; a line ends at a
\* newline, a field at the delimiter.
RECURSIVE Split(_, _, _)
Split(text, sep, cur) ==
    IF text = <<>> THEN <<cur>>
    ELSE IF Head(text) = BS /\ Len(text) >= 2
         THEN Split(Tail(Tail(text)), sep, cur \o <<text[1], text[2]>>)
    ELSE IF Head(text) = sep
         THEN <<cur>> \o Split(Tail(text), sep, <<>>)
    ELSE Split(Tail(text), sep, Append(cur, Head(text)))

CopyLines(buf) ==
    LET p == Split(buf, NL, <<>>)
    IN  IF p[Len(p)] = <<>> THEN SubSeq(p, 1, Len(p) - 1) ELSE p

CopyFields(line) == Split(line, COPY_DB_DELIMITER, <<>>)

RECURSIVE CopyUnescape(_)
\* the backslash sequences of the text format undone (octal and hex
\* sequences need a digit or an x after a backslash, which no encoder output
\* holds: every backslash of a value is doubled)
CopyUnescape(raw) ==
    IF raw = <<>> THEN <<>>
    ELSE IF Head(raw) = BS
         THEN IF Len(raw) = 1 THEN <<>>
              ELSE LET c == raw[2]
                   IN  (CASE c = "n" -> <<NL>>
                          [] c = "r" -> <<CR>>
                          [] c = "t" -> <<TAB>>
                          [] c = "b" -> <<"^H">>
                          [] c = "f" -> <<"^L">>
                          [] c = "v" -> <<"^K">>
                          [] OTHER -> <<c>>)
                       \o CopyUnescape(Tail(Tail(raw)))
    ELSE <<Head(raw)>> \o CopyUnescape(Tail(raw))

IsDigit(c) == c \in {"0", "1", "2", "3", "4", "5", "6", "7", "8", "9"}

DigitVal(c) == CHOOSE d \in 0..9 : Digit(d) = c

RECURSIVE ParseInt(_)
ParseInt(text) ==
    IF text = <<>> THEN 0
    ELSE ParseInt(SubSeq(text, 1, Len(text) - 1)) * 10 + DigitVal(text[Len(text)])

IsInt(text) == text # <<>> /\ \A i \in 1..Len(text) : IsDigit(text[i])

JsonHead == <<"{", DQ, "k", DQ, ":", SP, DQ>>

JsonTail == <<DQ, "}">>

RECURSIVE JsonBodyOk(_)
\* the text between the quotes of a JSON string is well formed
JsonBodyOk(text) ==
    IF text = <<>> THEN TRUE
    ELSE IF Head(text) = BS
         THEN /\ Len(text) >= 2
              /\ \/ /\ text[2] \in {DQ, BS, "n", "r", "t"}
                    /\ JsonBodyOk(Tail(Tail(text)))
                 \/ /\ Len(text) >= 6
                    /\ SubSeq(text, 2, 6) = <<"u", "0", "0", "1", "f">>
                    /\ JsonBodyOk(SubSeq(text, 7, Len(text)))
    ELSE /\ Head(text) \notin {DQ, NL, CR, TAB, COPY_DB_DELIMITER}
         /\ JsonBodyOk(Tail(text))

RECURSIVE JsonUnescape(_)
JsonUnescape(text) ==
    IF text = <<>> THEN <<>>
    ELSE IF Head(text) = BS
         THEN LET c == text[2]
              IN  IF c = "u"
                  THEN <<COPY_DB_DELIMITER>> \o JsonUnescape(SubSeq(text, 7, Len(text)))
                  ELSE (CASE c = "n" -> <<NL>>
                          [] c = "r" -> <<CR>>
                          [] c = "t" -> <<TAB>>
                          [] OTHER -> <<c>>)
                       \o JsonUnescape(Tail(Tail(text)))
    ELSE <<Head(text)>> \o JsonUnescape(Tail(text))

JsonValid(text) ==
    /\ Len(text) >= Len(JsonHead) + Len(JsonTail)
    /\ SubSeq(text, 1, Len(JsonHead)) = JsonHead
    /\ SubSeq(text, Len(text) - Len(JsonTail) + 1, Len(text)) = JsonTail
    /\ JsonBodyOk(SubSeq(text, Len(JsonHead) + 1, Len(text) - Len(JsonTail)))

\* json.loads of a text JsonValid accepts: the dict {"k": s}
JsonLoads(text) ==
    Dict(JsonUnescape(SubSeq(text, Len(JsonHead) + 1, Len(text) - Len(JsonTail))))

\* a raw field is acceptable input for a column of the given type
FieldOk(raw, type) ==
    \/ raw = COPY_NULL
    \/ type = "text"
    \/ type = "int" /\ IsInt(CopyUnescape(raw))
    \/ type = "dict" /\ JsonValid(CopyUnescape(raw))

\* the value a raw field stores in a column of the given type
DecodeField(raw, type) ==
    IF raw = COPY_NULL THEN NULL
    ELSE LET t == CopyUnescape(raw)
         IN  CASE type = "text" -> Text(t)
               [] type = "int" -> Number(ParseInt(t))
               [] OTHER -> JsonLoads(t)

DecodeLine(line, types) ==
    LET f == CopyFields(line)
    IN  [i \in 1..Len(types) |-> DecodeField(f[i], types[i])]

\* the error COPY raises for a line, or "none"
LineError(line, types) ==
    LET f == CopyFields(line)
    IN  IF Len(f) # Len(types) THEN "BadCopyFileFormat"
        ELSE IF \E i \in 1..Len(types) : ~FieldOk(f[i], types[i])
             THEN "InvalidTextRepresentation"
        ELSE "none"

\* the first error among the lines of the buffer, or "none"
CopyError(buf, types) ==
    LET ls == CopyLines(buf)
        bad == {i \in 1..Len(ls) : LineError(ls[i], types) # "none"}
    IN  IF bad = {} THEN "none"
        ELSE LineError(ls[CHOOSE i \in bad : \A j \in bad : i <= j], types)

\* the rows COPY appends to the table when the buffer is accepted
CopyRows(buf, types) ==
    LET ls == CopyLines(buf)
    IN  [i \in 1..Len(ls) |-> DecodeLine(ls[i], types)]

\* the except clause with one of its two error classes left out
ExceptOnlyBadCopyFileFormat(exc) ==
    IF exc = "BadCopyFileFormat" THEN "BadDataFormat" ELSE exc

\* the except clause of copy_from: the error that leaves copy_from when
\* cursor.copy_from raised exc ("none": it returned)
ExceptClause(exc) ==
    IF exc \in {"BadCopyFileFormat", "InvalidTextRepresentation"}
    THEN "BadDataFormat"
    ELSE exc

\* the finally clause of copy_from runs on every way out of the try block
FinallyClause(exc) == TRUE

\* copy_from(connection, data, table): types are the column types of the
\* table, fault an error of the connection during the COPY ("none": no
\* fault).  loader is what cursor.copy_from raised, raised what copy_from
\* raised, rows the rows the table received.
copy_from(data, types, fault) ==
    LET new_data == data2csv(data)
        loader == IF fault # "none" THEN fault ELSE CopyError(new_data, types)
    IN  [new_data |-> new_data,
         loader |-> loader,
         raised |-> ExceptClause(loader),
         rows |-> IF loader = "none" THEN CopyRows(new_data, types) ELSE <<>>,
         buffer_closed |-> FinallyClause(loader),
         cursor_closed |-> FinallyClause(loader)]

\* ------------------------------------------------------- exclude filter
\* An exclude pattern is a sequence of atoms: "." (any character but a
\* newline), "(" (an unbalanced parenthesis: not a regular expression) or a
\* literal character.
Lower(c) ==
    CASE c = "A" -> "a"
      [] c = "B" -> "b"
      [] c = "X" -> "x"
      [] OTHER -> c

\* re.compile(exclude, re.IGNORECASE) succeeds
ValidRegex(exclude) == \A i \in 1..Len(exclude) : exclude[i] # "("

\* pattern.match(text): the pattern matches at the start of the text
PatternMatch(exclude, text) ==
    /\ Len(exclude) <= Len(text)
    /\ \A i \in 1..Len(exclude) :
          \/ exclude[i] = "." /\ text[i] # NL
          \/ exclude[i] # "." /\ Lower(exclude[i]) = Lower(text[i])

\* position of a column name in the names of a row's columns, 0 when absent
Index(sel, name) ==
    IF \E i \in 1..Len(sel) : sel[i] = name
    THEN CHOOSE i \in 1..Len(sel) : sel[i] = name
    ELSE 0

RECURSIVE MatchPatterns(_, _, _, _)
\* the inner loop of row_matches_excludes over the patterns of one rule:
\* "True" (return True), "False" (loop ended) or the error raised
MatchPatterns(row, sel, column, patterns) ==
    IF patterns = <<>> THEN "False"
    ELSE IF ~ValidRegex(Head(patterns)) THEN "re.error"
    ELSE IF Index(sel, column) = 0 THEN "KeyError"
    ELSE LET v == row[Index(sel, column)]
         IN  IF v.kind = "null"
             THEN MatchPatterns(row, sel, column, Tail(patterns))
             ELSE IF v.kind # "text" THEN "TypeError"
             ELSE IF PatternMatch(Head(patterns), v.s) THEN "True"
             ELSE MatchPatterns(row, sel, column, Tail(patterns))

\* the outer loop leaving after the first rule
FirstDefinitionOnly(row, sel, excludes) ==
    IF excludes = <<>> THEN "False"
    ELSE MatchPatterns(row, sel, Head(excludes).column, Head(excludes).patterns)

RECURSIVE MatchDefinitions(_, _, _)
\* the outer loop of row_matches_excludes over the rules
MatchDefinitions(row, sel, excludes) ==
    IF excludes = <<>> THEN "False"
    ELSE LET r == MatchPatterns(row, sel, Head(excludes).column,
                                Head(excludes).patterns)
         IN  IF r # "False" THEN r
             ELSE MatchDefinitions(row, sel, Tail(excludes))

\* row_matches_excludes(row, excludes): row holds the values of the columns
\* sel; excludes is [some |-> FALSE] for None, else [some |-> TRUE, list]
row_matches_excludes(row, sel, excludes) ==
    MatchDefinitions(row, sel, IF excludes.some THEN excludes.list ELSE <<>>)

\* ----------------------------------------------------- row transformer
\* provider.alter_value(orig_value) of the provider a rule names
alter_value(provider, orig_value) ==
    Text(<<"h">> \o (IF orig_value.kind = "int" THEN Str(orig_value.n)
                     ELSE orig_value.s))

\* the provider names that have an implementation
Providers == {"md5"}

\* get_provider(provider_config): the provider of that name, or the error
\* raised for a name without an implementation
get_provider(provider_config) ==
    IF provider_config \in Providers THEN provider_config ELSE "ConfigurationError"

RECURSIVE ColumnValues(_, _, _, _)
\* the loop of get_column_values: acc.column_dict is the dictionary built so
\* far, acc.calls the provider invocations made so far, as <<column, value>>,
\* acc.raised the error that ended the loop
ColumnValues(row, sel, columns, acc) ==
    IF columns = <<>> THEN acc
    ELSE LET definition == Head(columns)
             column_name == definition.column
             orig_value == IF Index(sel, column_name) = 0 THEN NULL
                           ELSE row[Index(sel, column_name)]
         IN  IF ~Truthy(orig_value)
             THEN ColumnValues(row, sel, Tail(columns), acc)
             ELSE LET provider == get_provider(definition.provider)
                      altered == alter_value(provider, orig_value)
                      value == IF definition.append # <<>>
                               THEN Text(altered.s \o definition.append)
                               ELSE altered
                  IN  IF provider = "ConfigurationError"
                      THEN [acc EXCEPT !.raised = provider]
                      ELSE ColumnValues(row, sel, Tail(columns),
                              [column_dict |-> (column_name :> value) @@ acc.column_dict,
                               calls |-> Append(acc.calls, <<column_name, orig_value>>),
                               raised |-> "none"])

get_column_values(row, sel, columns) ==
    ColumnValues(row, sel, columns,
                 [column_dict |-> <<>>, calls |-> <<>>, raised |-> "none"])

\* process_row(row, columns, excludes): result "None" (excluded), "row" (the
\* row with the altered values written over it) or the error raised
process_row(row, sel, columns, excludes) ==
    LET m == row_matches_excludes(row, sel, [some |-> TRUE, list |-> excludes])
        g == get_column_values(row, sel, columns)
    IN  IF m = "True" THEN [result |-> "None", row |-> row, calls |-> <<>>]
        ELSE IF m # "False" THEN [result |-> m, row |-> row, calls |-> <<>>]
        ELSE IF g.raised # "none"
        THEN [result |-> g.raised, row |-> row, calls |-> g.calls]
        ELSE [result |-> "row",
              row |-> [i \in 1..Len(row) |->
                          IF sel[i] \in DOMAIN g.column_dict
                          THEN g.column_dict[sel[i]] ELSE row[i]],
              calls |-> g.calls]

\* ---------------------------------------------------------------- bounds
\* most rows a source table starts with
MaxRows == 3

\* largest chunk_size of a table definition
MaxChunk == 2

\* ----------------------------------------------------- the database model
VARIABLES
    tables,        \* source tables: table name -> sequence of rows
    before,        \* the rows of each table as they are without this run's writes
    temp,          \* temporary tables of the session: name -> [exists, rows, indexed]
    definitions,   \* the table definitions handed to anonymize_tables, call by call
    current,       \* index of the definition being processed
    pc,            \* the statement the control thread is at
    total_count,   \* result of get_table_count
    batches,       \* number of rounds of the loop
    round,         \* rounds of the loop started (trange's i, plus one)
    cursor,        \* the named cursor: [open, rows] (rows not yet fetched)
    records,       \* the batch fetched last
    data,          \* results of process_row for the batch, "pending" until computed
    error,         \* the exception that left anonymize_tables, or "none"
    last_copy,     \* what the last call of copy_from did
    log,           \* statements sent on the connection, in order: [op, table]
    fetched,       \* primary keys of the rows handed to the transformer, in order
    calls,         \* provider invocations: <<primary key, column, original value>>
    csv,           \* harness of the bulk encoder: [pc, data, types, out]
    excl           \* harness of the exclude filter: [pc, row, excludes, out]

vars == <<tables, before, temp, definitions, current, pc, total_count, batches, round,
          cursor, records, data, error, last_copy, log, fetched, calls, csv, excl>>

pipeVars == <<tables, before, temp, definitions, current, pc, total_count, batches, round,
              cursor, records, data, error, last_copy, log, fetched, calls>>

TableNames == {"users", "orders"}

\* the columns of a source table and their types
TableColumns == <<"id", "code", "email", "name", "note">>

ColumnType(name) == IF name = "id" THEN "int" ELSE "text"

\* get_column_names(definitions)
get_column_names(columns) == [j \in 1..Len(columns) |-> columns[j].column]

\* the columns the cursor selects and the staging table has
SelectColumns(definition) ==
    <<definition.primary_key>> \o get_column_names(definition.fields)

SelectTypes(definition) ==
    [j \in 1..Len(SelectColumns(definition)) |-> ColumnType(SelectColumns(definition)[j])]

\* a cursor that reads every row, whatever the search condition
SelectAll(row, search) == TRUE

\* the search condition of a definition: "none" or a WHERE clause
Selected(row, search) == search = "none" \/ row["id"].n > 1

RECURSIVE SelectRows(_, _, _)
\* SELECT sel FROM table WHERE search
SelectRows(rows, sel, search) ==
    IF rows = <<>> THEN <<>>
    ELSE (IF Selected(Head(rows), search)
          THEN <<[j \in 1..Len(sel) |-> Head(rows)[sel[j]]]>>
          ELSE <<>>)
         \o SelectRows(Tail(rows), sel, search)

\* the results handed on without filter(None, ...): excluded rows included
KeepNone(results) == [j \in 1..Len(results) |-> results[j].row]

RECURSIVE FilterNone(_)
\* filter(None, data)
FilterNone(results) ==
    IF results = <<>> THEN <<>>
    ELSE (IF Head(results).result = "row" THEN <<Head(results).row>> ELSE <<>>)
         \o FilterNone(Tail(results))

Definition == definitions[current]

Table == Definition.table

\* the staging table of a source table: 'tmp_{table}'
TempName(table) == table

NoCopy == [new_data |-> <<>>, loader |-> "none", raised |-> "none", rows |-> <<>>,
           buffer_closed |-> FALSE, cursor_closed |-> FALSE]

Pending == [result |-> "pending", row |-> <<>>, calls |-> <<>>]

\* ----------------------------------------------------------- inputs
\* the email and name values a row may hold
RowTemplates ==
    << [email |-> Text(<<"a">>), name |-> Text(<<"b">>)],
       [email |-> NULL, name |-> Text(<<"b">>)],
       [email |-> Text(<<>>), name |-> Text(<<"b">>)],
       [email |-> Text(<<"X", "a">>), name |-> Text(<<"b">>)],
       [email |-> Text(<<"a">>), name |-> NULL] >>

MakeRow(id, t) ==
    [c \in {"id", "code", "email", "name", "note"} |->
        CASE c = "id" -> Number(id)
          [] c = "code" -> Text(<<"k", Digit(id)>>)
          [] c = "email" -> RowTemplates[t].email
          [] c = "name" -> RowTemplates[t].name
          [] OTHER -> Text(<<"n">>)]

\* tables of up to MaxRows rows with primary keys 1, 2, ...
InitialTables ==
    UNION {{[j \in 1..n |-> MakeRow(j, f[j])] :
              f \in {g \in [1..n -> 1..Len(RowTemplates)] :
                        \A j \in 1..(n - 1) : g[j] <= g[j + 1]}} :
           n \in 0..MaxRows}

FieldRules ==
    { <<[column |-> "email", provider |-> "md5", append |-> <<>>]>>,
      <<[column |-> "email", provider |-> "md5", append |-> <<"@">>],
        [column |-> "name", provider |-> "md5", append |-> <<QUOTECHAR>>]>> }

ExcludeRules ==
    { <<>>,
      <<[column |-> "email", patterns |-> <<<<"b">>, <<"x">>>>]>>,
      <<[column |-> "note", patterns |-> <<<<"n">>>>]>> }

TableDefinitions ==
    [table : {"users"}, fields : FieldRules, excludes : ExcludeRules,
     search : {"none", "id > 1"}, primary_key : {"id"}, chunk_size : 1..MaxChunk]

IdleCsv == [pc |-> "idle", data |-> <<>>, types |-> <<>>, out |-> NoCopy]

IdleExcl == [pc |-> "idle", row |-> <<>>, excludes |-> [some |-> FALSE, list |-> <<>>],
             out |-> "none"]

\* a database holding the table users with the rows given, and no other rows
Database(rows) == [t \in TableNames |-> IF t = "users" THEN rows ELSE <<>>]

\* anonymize_tables(connection, defs) is called on a new session of the
\* database db
Called(db, defs) ==
    /\ tables = db
    /\ before = tables
    /\ temp = [t \in TableNames |-> [exists |-> FALSE, rows |-> <<>>, indexed |-> FALSE]]
    /\ definitions = defs
    /\ current = 1
    /\ pc = "get_table_count"
    /\ total_count = 0
    /\ batches = 0
    /\ round = 0
    /\ cursor = [open |-> FALSE, rows |-> <<>>]
    /\ records = <<>>
    /\ data = <<>>
    /\ error = "none"
    /\ last_copy = NoCopy
    /\ log = <<>>
    /\ fetched = <<>>
    /\ calls = {}
    /\ csv = IdleCsv
    /\ excl = IdleExcl

Init ==
    \E rows \in InitialTables, td \in TableDefinitions : Called(Database(rows), <<td>>)

\* ------------------------------------------------------------- actions
\* the number of batches rounded down
Floor(a, b) == a \div b

\* math.ceil((1.0 * a) / (1.0 * b))
Ceil(a, b) == (a + b - 1) \div b

\* get_table_count(connection, table_name), called by anonymize_tables
GetTableCount ==
    /\ pc = "get_table_count"
    /\ total_count' = Len(tables[Table])
    /\ log' = Append(log, [op |-> "SELECT COUNT", table |-> Table, rows |-> 1])
    /\ pc' = "cursor.execute"
    /\ UNCHANGED <<tables, before, temp, definitions, current, batches, round, cursor,
                   records, data, error, last_copy, fetched, calls, csv, excl>>

\* another session commits a new row between the COUNT and the cursor's SELECT
ConcurrentInsert ==
    /\ pc = "cursor.execute"
    /\ Len(tables[Table]) = total_count
    /\ LET row == MakeRow(Len(tables[Table]) + 1, 1)
       IN  /\ tables' = [tables EXCEPT ![Table] = Append(@, row)]
           /\ before' = [before EXCEPT ![Table] = Append(@, row)]
    /\ UNCHANGED <<temp, definitions, current, pc, total_count, batches, round, cursor,
                   records, data, error, last_copy, log, fetched, calls, csv, excl>>

\* cursor = connection.cursor(name='fetch_large_result'); cursor.execute(sql)
CursorExecute ==
    /\ pc = "cursor.execute"
    /\ cursor' = [open |-> TRUE,
                  rows |-> SelectRows(tables[Table], SelectColumns(Definition),
                                      Definition.search)]
    /\ log' = Append(log, [op |-> "DECLARE", table |-> Table, rows |-> 0])
    /\ pc' = "create_temporary_table"
    /\ UNCHANGED <<tables, before, temp, definitions, current, total_count, batches,
                   round, records, data, error, last_copy, fetched, calls, csv, excl>>

\* create_temporary_table(...), then batches = ceil(total_count / chunk_size)
CreateTemporaryTable ==
    /\ pc = "create_temporary_table"
    /\ log' = Append(log, [op |-> "CREATE TEMP TABLE", table |-> Table, rows |-> 0])
    /\ IF temp[TempName(Table)].exists
       THEN /\ error' = "DuplicateTable"
            /\ pc' = "raised"
            /\ UNCHANGED <<temp, batches, round>>
       ELSE /\ temp' = [temp EXCEPT ![TempName(Table)] =
                           [exists |-> TRUE, rows |-> <<>>, indexed |-> FALSE]]
            /\ batches' = Ceil(total_count, Definition.chunk_size)
            /\ round' = 0
            /\ pc' = "for"
            /\ UNCHANGED error
    /\ UNCHANGED <<tables, before, definitions, current, total_count, cursor, records,
                   data, last_copy, fetched, calls, csv, excl>>

\* the for statement: trange(batches) is exhausted
LoopExhausted ==
    /\ pc = "for"
    /\ round >= batches
    /\ pc' = "apply_anonymized_data"
    /\ UNCHANGED <<tables, before, temp, definitions, current, total_count, batches,
                   round, cursor, records, data, error, last_copy, log, fetched, calls,
                   csv, excl>>

\* records = cursor.fetchmany(size=chunk_size); if not records: break
Fetch ==
    /\ pc = "for"
    /\ round < batches
    /\ round' = round + 1
    /\ LET n == IF Len(cursor.rows) < Definition.chunk_size
                THEN Len(cursor.rows) ELSE Definition.chunk_size
           got == SubSeq(cursor.rows, 1, n)
       IN  /\ records' = got
           /\ log' = Append(log, [op |-> "FETCH", table |-> Table, rows |-> n])
           /\ cursor' = [cursor EXCEPT !.rows = SubSeq(@, n + 1, Len(@))]
           /\ IF got = <<>>
              THEN /\ pc' = "apply_anonymized_data"
                   /\ UNCHANGED <<data, fetched>>
              ELSE /\ pc' = "parmap.map"
                   /\ data' = [j \in 1..n |-> Pending]
                   /\ fetched' = fetched \o [j \in 1..n |-> got[j][1]]
    /\ UNCHANGED <<tables, before, temp, definitions, current, total_count, batches,
                   error, last_copy, calls, csv, excl>>

\* a map that keeps the error of a worker and goes on
ProcessRowGoesOn(j) ==
    /\ pc = "parmap.map"
    /\ j \in 1..Len(data)
    /\ data[j].result = "pending"
    /\ LET r == process_row(records[j], SelectColumns(Definition),
                            Definition.fields, Definition.excludes)
       IN  /\ data' = [data EXCEPT ![j] = r]
           /\ calls' = calls \cup {<<records[j][1], r.calls[k][1], r.calls[k][2]>> :
                                      k \in 1..Len(r.calls)}
           /\ error' = IF r.result \in {"row", "None"} THEN error ELSE r.result
    /\ UNCHANGED <<tables, before, temp, definitions, current, pc, total_count, batches,
                   round, cursor, records, last_copy, log, fetched, csv, excl>>

\* one worker of parmap.map runs process_row on one record of the batch
ProcessRow(j) ==
    /\ pc = "parmap.map"
    /\ j \in 1..Len(data)
    /\ data[j].result = "pending"
    /\ LET r == process_row(records[j], SelectColumns(Definition),
                            Definition.fields, Definition.excludes)
       IN  /\ data' = [data EXCEPT ![j] = r]
           /\ calls' = calls \cup {<<records[j][1], r.calls[k][1], r.calls[k][2]>> :
                                      k \in 1..Len(r.calls)}
           /\ IF r.result \in {"row", "None"}
              THEN UNCHANGED <<pc, error>>
              ELSE /\ pc' = "raised"
                   /\ error' = r.result
    /\ UNCHANGED <<tables, before, temp, definitions, current, total_count, batches,
                   round, cursor, records, last_copy, log, fetched, csv, excl>>

\* a map that hands back its results once the first worker has finished
MapReturnedEarly(results) == \E j \in 1..Len(results) : results[j].result # "pending"

\* parmap.map returns once every worker has returned its result
MapReturned(results) == \A j \in 1..Len(results) : results[j].result # "pending"

\* import_data(connection, temp_table, filter(None, data)), once parmap.map
\* has returned the results of the whole batch
ImportData(fault) ==
    /\ pc = "parmap.map"
    /\ MapReturned(data)
    /\ LET c == copy_from(FilterNone(data), SelectTypes(Definition), fault)
       IN  /\ last_copy' = c
           /\ log' = Append(log, [op |-> "COPY", table |-> Table,
                                   rows |-> IF c.raised = "none" THEN Len(c.rows) ELSE 0])
           /\ IF c.raised = "none"
              THEN /\ temp' = [temp EXCEPT ![TempName(Table)].rows = @ \o c.rows]
                   /\ pc' = "for"
                   /\ UNCHANGED error
              ELSE /\ error' = c.raised
                   /\ pc' = "raised"
                   /\ UNCHANGED temp
    /\ UNCHANGED <<tables, before, definitions, current, total_count, batches, round,
                   cursor, records, data, fetched, calls, csv, excl>>

\* apply_anonymized_data without its first statement
NoCreateIndex ==
    /\ pc = "apply_anonymized_data"
    /\ pc' = "update"
    /\ UNCHANGED <<tables, before, temp, definitions, current, total_count, batches,
                   round, cursor, records, data, error, last_copy, log, fetched, calls,
                   csv, excl>>

\* apply_anonymized_data, first statement: CREATE INDEX ON temp_table (primary_key)
CreateIndex ==
    /\ pc = "apply_anonymized_data"
    /\ temp' = [temp EXCEPT ![TempName(Table)].indexed = TRUE]
    /\ log' = Append(log, [op |-> "CREATE INDEX", table |-> Table, rows |-> 0])
    /\ pc' = "update"
    /\ UNCHANGED <<tables, before, definitions, current, total_count, batches, round,
                   cursor, records, data, error, last_copy, fetched, calls, csv, excl>>

\* the staging rows whose primary key equals that of a source row
Matching(row, staging) == {k \in 1..Len(staging) : staging[k][1] = row[Definition.primary_key]}

\* a SET clause naming the first rule column only
SetFirstColumn(row, s, sel) ==
    [c \in DOMAIN row |-> IF Len(sel) >= 2 /\ sel[2] = c THEN s[2] ELSE row[c]]

\* a source row after SET column = s.column for every rule column, s a staging row
SetColumns(row, s, sel) ==
    [c \in DOMAIN row |->
        IF \E j \in 2..Len(sel) : sel[j] = c
        THEN s[CHOOSE j \in 2..Len(sel) : sel[j] = c]
        ELSE row[c]]

RECURSIVE Picks(_, _)
\* the ways to join the source rows src with staging: for each source row the
\* index of a staging row of the same primary key, 0 if there is none
Picks(src, staging) ==
    IF src = <<>> THEN {<<>>}
    ELSE {<<p>> \o rest :
             p \in (IF Matching(Head(src), staging) = {} THEN {0}
                    ELSE Matching(Head(src), staging)),
             rest \in Picks(Tail(src), staging)}

\* apply_anonymized_data, second statement: UPDATE t SET ... FROM temp s WHERE
\* t.pk = s.pk; a source row that several staging rows join takes any of them
Update ==
    /\ pc = "update"
    /\ LET staging == temp[TempName(Table)].rows
           src == tables[Table]
       IN  \E pick \in Picks(src, staging) :
              /\ tables' = [tables EXCEPT ![Table] =
                    [k \in 1..Len(src) |->
                        IF pick[k] = 0 THEN src[k]
                        ELSE SetColumns(src[k], staging[pick[k]],
                                        SelectColumns(Definition))]]
              /\ log' = Append(log, [op |-> "UPDATE", table |-> Table,
                                      rows |-> Cardinality({k \in 1..Len(src) :
                                                              pick[k] # 0})])
    /\ pc' = "cursor.close"
    /\ UNCHANGED <<before, temp, definitions, current, total_count, batches, round,
                   cursor, records, data, error, last_copy, fetched, calls, csv, excl>>

\* cursor.close(), and anonymize_tables goes on to the next definition
CursorClose ==
    /\ pc = "cursor.close"
    /\ cursor' = [open |-> FALSE, rows |-> <<>>]
    /\ log' = Append(log, [op |-> "CLOSE", table |-> Table, rows |-> 0])
    /\ IF current < Len(definitions)
       THEN /\ current' = current + 1
            /\ pc' = "get_table_count"
       ELSE /\ pc' = "done"
            /\ UNCHANGED current
    /\ UNCHANGED <<tables, before, temp, definitions, total_count, batches, round,
                   records, data, error, last_copy, fetched, calls, csv, excl>>

\* a loop over the definitions that logs the error of a table and goes on to
\* the next definition
StatementFailsGoesOn ==
    /\ pc \in {"get_table_count", "cursor.execute", "create_temporary_table", "for",
               "apply_anonymized_data", "update", "cursor.close"}
    /\ pc = "for" => round < batches
    /\ error' = "OperationalError"
    /\ log' = Append(log, [op |-> "failed", table |-> Table, rows |-> 0])
    /\ IF current < Len(definitions)
       THEN /\ current' = current + 1
            /\ pc' = "get_table_count"
       ELSE /\ pc' = "raised"
            /\ UNCHANGED current
    /\ UNCHANGED <<tables, before, temp, definitions, total_count, batches,
                   round, cursor, records, data, last_copy, fetched, calls, csv, excl>>

\* a statement of the control thread fails in the database (connection lost,
\* statement rejected): the error leaves anonymize_tables
StatementFails ==
    /\ pc \in {"get_table_count", "cursor.execute", "create_temporary_table", "for",
               "apply_anonymized_data", "update", "cursor.close"}
    /\ pc = "for" => round < batches
    /\ error' = "OperationalError"
    /\ pc' = "raised"
    /\ log' = Append(log, [op |-> "failed", table |-> Table, rows |-> 0])
    /\ UNCHANGED <<tables, before, temp, definitions, current, total_count, batches,
                   round, cursor, records, data, last_copy, fetched, calls, csv, excl>>

Next ==
    \/ GetTableCount
    \/ ConcurrentInsert
    \/ CursorExecute
    \/ CreateTemporaryTable
    \/ LoopExhausted
    \/ Fetch
    \/ \E j \in 1..MaxChunk : ProcessRow(j)
    \/ \E fault \in {"none", "OperationalError"} : ImportData(fault)
    \/ CreateIndex
    \/ Update
    \/ CursorClose
    \/ StatementFails

Spec == Init /\ [][Next]_vars

\* ----------------------------------- the pipeline with faulty definitions
\* tables whose rows hold a name, and an email that is null or not empty
DefTables ==
    {rows \in InitialTables :
        \A k \in 1..Len(rows) : /\ rows[k]["name"] = Text(<<"b">>)
                                 /\ rows[k]["email"] # Text(<<>>)}

\* rules naming the provider md5, and a provider that has no implementation
DefFieldRules ==
    { <<[column |-> "email", provider |-> "md5", append |-> <<>>]>>,
      <<[column |-> "email", provider |-> "sha0", append |-> <<>>]>> }

\* exclude rules: none, one whose second pattern does not compile, and one on
\* a column the cursor does not select
DefExcludeRules ==
    { <<>>,
      <<[column |-> "email", patterns |-> <<<<"x">>, <<"(">>>>]>>,
      <<[column |-> "note", patterns |-> <<<<"n">>>>]>> }

DefDefinitions ==
    [table : {"users"}, fields : DefFieldRules, excludes : DefExcludeRules,
     search : {"none", "id > 1"}, primary_key : {"id"}, chunk_size : 1..MaxChunk]

InitDef ==
    \E rows \in DefTables, td \in DefDefinitions : Called(Database(rows), <<td>>)

SpecDef == InitDef /\ [][Next]_vars

\* ------------------------------------------- harness of the bulk encoder
CsvChars == {"N", BS, TAB, NL, CR, DQ, QUOTECHAR, COPY_DB_DELIMITER}

\* longest text of the harness
MaxLen == 3

RECURSIVE Texts(_)
\* the texts of at most n characters
Texts(n) ==
    IF n = 0 THEN {<<>>}
    ELSE Texts(n - 1) \cup {Append(t, c) : t \in {u \in Texts(n - 1) : Len(u) = n - 1},
                                          c \in CsvChars}

CsvValues ==
    {NULL, Number(0), Number(7), Number(12)}
    \cup {Text(t) : t \in Texts(MaxLen)}
    \cup {Dict(t) : t \in Texts(MaxLen)}

SecondValues == {NULL, Text(<<"a">>), Number(7)}

CsvRows == {<<v>> : v \in CsvValues} \cup {<<v, w>> : v \in CsvValues, w \in SecondValues}

\* the type of the column a value is read from and loaded into
TypeOf(v) == IF v.kind = "null" THEN "text" ELSE v.kind

PlainValue(type) ==
    CASE type = "int" -> Number(3)
      [] type = "dict" -> Dict(<<"a">>)
      [] OTHER -> Text(<<"a">>)

InitCsv ==
    /\ \E row \in CsvRows, more \in BOOLEAN :
          LET types == [j \in 1..Len(row) |-> TypeOf(row[j])]
              plain == [j \in 1..Len(row) |-> PlainValue(types[j])]
          IN  csv = [pc |-> "start",
                     data |-> IF more THEN <<row, plain>> ELSE <<row>>,
                     types |-> types,
                     out |-> NoCopy]
    /\ excl = IdleExcl
    /\ tables = [t \in TableNames |-> <<>>]
    /\ before = tables
    /\ temp = [t \in TableNames |-> [exists |-> FALSE, rows |-> <<>>, indexed |-> FALSE]]
    /\ definitions = <<>>
    /\ current = 1
    /\ pc = "idle"
    /\ total_count = 0
    /\ batches = 0
    /\ round = 0
    /\ cursor = [open |-> FALSE, rows |-> <<>>]
    /\ records = <<>>
    /\ data = <<>>
    /\ error = "none"
    /\ last_copy = NoCopy
    /\ log = <<>>
    /\ fetched = <<>>
    /\ calls = {}

\* copy_from(connection, data, table) on the rows of the harness
CsvCopyFrom(fault) ==
    /\ csv.pc = "start"
    /\ csv' = [csv EXCEPT !.pc = "returned",
                          !.out = copy_from(csv.data, csv.types, fault)]
    /\ UNCHANGED <<pipeVars, excl>>

NextCsv == \E fault \in {"none", "OperationalError"} : CsvCopyFrom(fault)

SpecCsv == InitCsv /\ [][NextCsv]_vars

\* ------------------------------------------ harness of the exclude filter
ExclColumns == <<"id", "email", "name">>

ExclEmails ==
    {NULL, Text(<<>>), Text(<<"a">>), Text(<<"A", "b">>), Text(<<"b", "a">>),
     Text(<<"B">>)}

ExclNames == {NULL, Text(<<"b">>)}

Patterns == {<<>>, <<"a">>, <<"A", "B">>, <<".", "a">>, <<"(">>}

PatternLists == {<<>>} \cup {<<p>> : p \in Patterns} \cup {<<p, q>> : p, q \in Patterns}

ExclDefinitions == [column : {"email", "name"}, patterns : PatternLists]

ExcludeLists ==
    {<<>>} \cup {<<r>> : r \in ExclDefinitions} \cup {<<r, q>> : r, q \in ExclDefinitions}

InitExcl ==
    /\ \E email \in ExclEmails, name \in ExclNames, list \in ExcludeLists,
          some \in BOOLEAN :
          /\ ~some => list = <<>>
          /\ excl = [pc |-> "start",
                     row |-> <<Number(1), email, name>>,
                     excludes |-> [some |-> some, list |-> list],
                     out |-> "none"]
    /\ csv = IdleCsv
    /\ tables = [t \in TableNames |-> <<>>]
    /\ before = tables
    /\ temp = [t \in TableNames |-> [exists |-> FALSE, rows |-> <<>>, indexed |-> FALSE]]
    /\ definitions = <<>>
    /\ current = 1
    /\ pc = "idle"
    /\ total_count = 0
    /\ batches = 0
    /\ round = 0
    /\ cursor = [open |-> FALSE, rows |-> <<>>]
    /\ records = <<>>
    /\ data = <<>>
    /\ error = "none"
    /\ last_copy = NoCopy
    /\ log = <<>>
    /\ fetched = <<>>
    /\ calls = {}

\* row_matches_excludes(row, excludes) on the row of the harness
ExclCall ==
    /\ excl.pc = "start"
    /\ excl' = [excl EXCEPT !.pc = "returned",
                            !.out = row_matches_excludes(excl.row, ExclColumns,
                                                         excl.excludes)]
    /\ UNCHANGED <<pipeVars, csv>>

NextExcl == ExclCall

SpecExcl == InitExcl /\ [][NextExcl]_vars

\* ================================================================ claims

\* ----------------------------------------------------------------- C8
CopyReturned == csv.pc = "returned"

\* C8: when cursor.copy_from raises BadCopyFileFormat or
\* InvalidTextRepresentation, copy_from raises BadDataFormat; any other error
\* of the loader leaves copy_from as it is; and whether the load succeeded or
\* raised, the buffer and the cursor of copy_from are closed.
C8_BadDataFormat ==
    CopyReturned =>
        /\ csv.out.loader \in {"BadCopyFileFormat", "InvalidTextRepresentation"}
              => csv.out.raised = "BadDataFormat"
        /\ csv.out.loader \notin {"BadCopyFileFormat", "InvalidTextRepresentation"}
              => csv.out.raised = csv.out.loader
        /\ csv.out.buffer_closed
        /\ csv.out.cursor_closed

\* a load the loader rejected for a type mismatch (a JSON column handed text
\* that is no JSON), raised as BadDataFormat with buffer and cursor closed
C8_Witness ==
    /\ CopyReturned
    /\ csv.out.loader = "InvalidTextRepresentation"
    /\ csv.out.raised = "BadDataFormat"
    /\ csv.out.buffer_closed
    /\ csv.out.cursor_closed

\* ----------------------------------------------------------------- C9
\* a text whose whitespace is embedded: none at either end, where strip()
\* would take it, and no delimiter character in it
Embedded(text) ==
    /\ text # <<>> => ~IsSpace(text[1]) /\ ~IsSpace(text[Len(text)])
    /\ \A k \in 1..Len(text) : text[k] # COPY_DB_DELIMITER

InRoundTripDomain(rows) ==
    \A r \in 1..Len(rows) : \A f \in 1..Len(rows[r]) :
        rows[r][f].kind = "text" => Embedded(rows[r][f].s)

\* C9: data2csv followed by the bulk loader's decoding gives back every
\* field of every row: as many rows as were encoded, as many fields in each,
\* every value the one encoded (so no text comes back as null), for nulls,
\* texts with embedded backslash, tab, newline or carriage return, and dicts.
C9_RoundTrip ==
    (CopyReturned /\ csv.out.loader # "OperationalError" /\ InRoundTripDomain(csv.data))
        => /\ csv.out.loader = "none"
           /\ csv.out.rows = csv.data

\* a field the csv writer wraps in its quotechar
Quoted(rows) ==
    \E r \in 1..Len(rows) : \E f \in 1..Len(rows[r]) :
        LET val == FieldVal(rows[r][f])
        IN  CsvNeedsQuote(val) \/ (Len(rows[r]) = 1 /\ val = <<>>)

\* what C9 comes to on the code: the round trip holds for the rows of which
\* the csv writer quotes no field
RoundTripUnquoted ==
    (CopyReturned /\ csv.out.loader # "OperationalError" /\ InRoundTripDomain(csv.data)
        /\ ~Quoted(csv.data))
        => /\ csv.out.loader = "none"
           /\ csv.out.rows = csv.data

\* ---------------------------------------------------------------- C10
ExclReturned == excl.pc = "returned"

ExclList == IF excl.excludes.some THEN excl.excludes.list ELSE <<>>

ExclValue(column) == excl.row[Index(ExclColumns, column)]

\* the pattern matches the text from its first character on, ignoring case
MatchesFromStart(pattern, text) ==
    \E n \in 0..Len(text) :
        /\ n = Len(pattern)
        /\ \A k \in 1..n :
              \/ pattern[k] = "." /\ text[k] # NL
              \/ pattern[k] # "." /\ Lower(pattern[k]) = Lower(text[k])

\* some pattern of the r-th rule matches the row's value in the rule's column
RuleMatches(r) ==
    \E p \in 1..Len(ExclList[r].patterns) :
        /\ ExclValue(ExclList[r].column).kind # "null"
        /\ MatchesFromStart(ExclList[r].patterns[p], ExclValue(ExclList[r].column).s)

AllPatternsValid ==
    \A r \in 1..Len(ExclList) : \A p \in 1..Len(ExclList[r].patterns) :
        ValidRegex(ExclList[r].patterns[p])

\* C10: row_matches_excludes returns True exactly when some pattern of some
\* exclude rule matches the row's non-null value in the rule's column from
\* its first character on, ignoring case; so a null value never matches, an
\* empty or absent exclude list never matches, and one matching pattern of
\* any rule is enough.  (Every pattern a regular expression: with one that
\* is none the call raises.)
C10_RowMatchesExcludes ==
    ExclReturned =>
        /\ excl.out = "True" => \E r \in 1..Len(ExclList) : RuleMatches(r)
        /\ AllPatternsValid =>
              /\ excl.out \in {"True", "False"}
              /\ (\E r \in 1..Len(ExclList) : RuleMatches(r)) => excl.out = "True"

\* the first rule matches nothing (its column is null) and a pattern of the
\* second rule, not its first, matches: the call returned True
C10_Witness ==
    /\ ExclReturned
    /\ excl.out = "True"
    /\ Len(ExclList) = 2
    /\ ExclValue(ExclList[1].column).kind = "null"
    /\ ExclList[1].patterns # <<>>
    /\ Len(ExclList[2].patterns) = 2
    /\ ~MatchesFromStart(ExclList[2].patterns[1], ExclValue(ExclList[2].column).s)

\* ------------------------------------------------ the pipeline's claims
Source == tables[Table]

Original == before[Table]

Staging == temp[TempName(Table)].rows

RuleColumns == get_column_names(Definition.fields)

\* positions in the log of a statement on the current table
Ops(op) == {k \in 1..Len(log) : log[k].op = op /\ log[k].table = Table}

\* the loop of build_and_then_import_data has ended without an error
LoopEnded == pc \in {"apply_anonymized_data", "update", "cursor.close", "done"}

\* the primary keys of the rows the cursor of the current table yields
CursorIds ==
    LET rows == SelectRows(Original, SelectColumns(Definition), Definition.search)
    IN  [k \in 1..Len(rows) |-> rows[k][1]]

WasFetched(row) == \E k \in 1..Len(fetched) : fetched[k] = row[Definition.primary_key]

IsStaged(row) == \E k \in 1..Len(Staging) : Staging[k][1] = row[Definition.primary_key]

\* some pattern of some exclude rule matches the row's value in the rule's
\* column (a row of the source table, with all its columns)
ExcludedRow(row) ==
    \E r \in 1..Len(Definition.excludes) :
        \E p \in 1..Len(Definition.excludes[r].patterns) :
            LET v == row[Definition.excludes[r].column]
            IN  /\ v.kind = "text"
                /\ MatchesFromStart(Definition.excludes[r].patterns[p], v.s)

\* a value that is null or empty: None, '' or 0
NullOrEmpty(v) ==
    \/ v.kind = "null"
    \/ v.kind = "text" /\ v.s = <<>>
    \/ v.kind = "int" /\ v.n = 0

\* ----------------------------------------------------------------- C1
\* C1: after a complete run, every rule column of every row that was not
\* excluded holds alter(original) followed by the rule's suffix.  Stated for
\* the rows the cursor fetched and the originals that are neither null nor
\* empty, the cases in which the transformer calls the provider.
C1_AlteredValueStored ==
    pc = "done" =>
        \A k \in 1..Len(Original) :
            (WasFetched(Original[k]) /\ ~ExcludedRow(Original[k])) =>
                \A c \in 1..Len(Definition.fields) :
                    LET rule == Definition.fields[c]
                        orig == Original[k][rule.column]
                    IN  ~NullOrEmpty(orig) =>
                            Source[k][rule.column]
                                = Text(alter_value(rule.provider, orig).s \o rule.append)

\* ----------------------------------------------------------------- C2
\* C2: a row that an exclude rule matches is never written to the staging
\* table, and every column of it in the source table keeps its value.
C2_ExcludedUntouched ==
    \A k \in 1..Len(Original) :
        ExcludedRow(Original[k]) =>
            /\ ~IsStaged(Original[k])
            /\ Source[k] = Original[k]

\* a complete run that fetched an excluded row and changed another row
C2_Witness ==
    /\ pc = "done"
    /\ \E k \in 1..Len(Original) :
          /\ ExcludedRow(Original[k])
          /\ WasFetched(Original[k])
          /\ Source[k] = Original[k]
    /\ \E k \in 1..Len(Original) : Source[k] # Original[k]

\* ----------------------------------------------------------------- C3
\* C3: for a row that is not excluded and a rule column whose original value
\* is null or empty, the provider is not called for that column, the staged
\* value of the column is the original value, and the source table holds the
\* original value after the merge, whatever happens to the row's other
\* rule columns.
C3_SkippedColumnUnchanged ==
    \A k \in 1..Len(Original) : \A c \in 1..Len(RuleColumns) :
        LET col == RuleColumns[c]
            orig == Original[k][col]
        IN  (~ExcludedRow(Original[k]) /\ NullOrEmpty(orig)) =>
                /\ \A call \in calls : ~(call[1] = Original[k][Definition.primary_key] /\ call[2] = col)
                /\ \A j \in 1..Len(Staging) :
                      Staging[j][1] = Original[k]["id"] => Staging[j][c + 1] = orig
                /\ Source[k][col] = orig

\* a complete run that merged a row of which one rule column was null or
\* empty, and stayed so, while another rule column was altered
C3_Witness ==
    /\ pc = "done"
    /\ \E k \in 1..Len(Original) : \E c1, c2 \in 1..Len(RuleColumns) :
          /\ IsStaged(Original[k])
          /\ NullOrEmpty(Original[k][RuleColumns[c1]])
          /\ Source[k][RuleColumns[c1]] = Original[k][RuleColumns[c1]]
          /\ Source[k][RuleColumns[c2]] # Original[k][RuleColumns[c2]]

\* ----------------------------------------------------------------- C4
NoDuplicates(seq) == \A j, k \in 1..Len(seq) : seq[j] = seq[k] => j = k

\* C4: for a table of N rows (the count taken is N: no row was added to the
\* table after it) and any chunk size, no row is handed to the transformer
\* twice, and when the loop ends every row the cursor returns has been
\* handed to it.
C4_EveryRowOnce ==
    /\ NoDuplicates(fetched)
    /\ Len(fetched) <= Len(CursorIds)
    /\ fetched = SubSeq(CursorIds, 1, Len(fetched))
    /\ (LoopEnded /\ total_count = Len(Original)) =>
          /\ fetched = CursorIds
          /\ cursor.rows = <<>>

\* a table of one row more than a multiple of the chunk size, all fetched
C4_Witness ==
    /\ pc = "done"
    /\ Definition.chunk_size > 1
    /\ Len(CursorIds) > Definition.chunk_size
    /\ Len(CursorIds) % Definition.chunk_size = 1
    /\ fetched = CursorIds

\* ----------------------------------------------------------------- C5
\* C5: whatever the count taken up front, when the loop ends every row the
\* cursor yields has been fetched, and the rows of it that are not excluded
\* have been staged.
C5_CountDecidesNothing ==
    LoopEnded =>
        /\ cursor.rows = <<>>
        /\ fetched = CursorIds
        /\ \A k \in 1..Len(Original) :
              (Selected(Original[k], Definition.search) /\ ~ExcludedRow(Original[k]))
                  => IsStaged(Original[k])

\* ----------------------------------------------------------------- C6
\* C6: the source table differs from what it was only once the merge UPDATE
\* has been executed: a run that raised before it leaves the table as it was.
\* Once merged, every source row that has a staging row holds the staged
\* value in every rule column.
C6_MergedOrUnmodified ==
    /\ Source # Original => Ops("UPDATE") # {}
    /\ (pc = "raised" /\ Ops("UPDATE") = {}) => Source = Original
    /\ Ops("UPDATE") # {} =>
          \A k \in 1..Len(Source) : \A j \in 1..Len(Staging) :
              Staging[j][1] = Source[k]["id"] =>
                  \A c \in 1..Len(RuleColumns) : Source[k][RuleColumns[c]] = Staging[j][c + 1]

\* a bulk load that raised after an earlier batch had been staged; the
\* source table is as it was
C6_Witness ==
    /\ pc = "raised"
    /\ Ops("COPY") # {}
    /\ Staging # <<>>
    /\ \E k \in 1..Len(Original) : IsStaged(Original[k]) /\ ~ExcludedRow(Original[k])
    /\ Ops("UPDATE") = {}
    /\ Source = Original

\* ----------------------------------------------------------------- C7
\* C7: on a table, the cursor is opened and the staging table created before
\* the first bulk load; the index is created after the last bulk load and
\* before the merge; the merge is sent once, after the index, by every run
\* that completes, and never twice; and the source table changes through no
\* other statement.
C7_StatementOrder ==
    /\ \A k \in Ops("COPY") :
          /\ \E j \in Ops("DECLARE") : j < k
          /\ \E j \in Ops("CREATE TEMP TABLE") : j < k
    /\ \A k \in Ops("CREATE INDEX") :
          /\ \A j \in Ops("COPY") \cup Ops("FETCH") : j < k
          /\ \A j \in Ops("UPDATE") : k < j
    /\ \A k \in Ops("UPDATE") : \E j \in Ops("CREATE INDEX") : j < k
    /\ Cardinality(Ops("UPDATE")) <= 1
    /\ Cardinality(Ops("CREATE INDEX")) <= 1
    /\ pc = "done" => Cardinality(Ops("UPDATE")) = 1
    /\ Source # Original => Ops("UPDATE") # {}

\* a complete run of two bulk loads, the index and the merge
C7_Witness ==
    /\ pc = "done"
    /\ Cardinality(Ops("COPY")) >= 2
    /\ Cardinality(Ops("CREATE INDEX")) = 1
    /\ Cardinality(Ops("UPDATE")) = 1
    /\ Source # Original

\* --------------------------------------- several definitions, several calls
\* tables of fewer than MaxRows rows, all with the email and name given
RowsOf(t) ==
    {rows \in InitialTables :
        /\ Len(rows) < MaxRows
        /\ \A k \in 1..Len(rows) : rows[k] = MakeRow(k, t)}

MultiDefinitions ==
    [table : TableNames,
     fields : {<<[column |-> "email", provider |-> "md5", append |-> <<>>]>>},
     excludes : {<<>>}, search : {"none"}, primary_key : {"id"},
     chunk_size : 1..MaxChunk]

\* one or two definitions, the same table twice included
InitMulti ==
    \E users \in RowsOf(1), orders \in RowsOf(4) :
        \E defs \in {<<td>> : td \in MultiDefinitions}
                    \cup {<<td1, td2>> : td1 \in MultiDefinitions, td2 \in MultiDefinitions} :
            Called([t \in TableNames |-> IF t = "users" THEN users ELSE orders], defs)

\* anonymize_tables has returned, and the caller calls it again with the same
\* definitions on the same connection: the session keeps its temporary
\* tables; definitions holds the list of the second call after that of the first
CallAgain ==
    /\ pc = "done"
    /\ definitions' = definitions \o definitions
    /\ current' = current + 1
    /\ pc' = "get_table_count"
    /\ UNCHANGED <<tables, before, temp, total_count, batches, round, cursor, records,
                   data, error, last_copy, log, fetched, calls, csv, excl>>

NextMulti == Next \/ CallAgain

SpecMulti == InitMulti /\ [][NextMulti]_vars

\* ------------------------------------------------ the rounds of the loop
\* tables of up to MaxRows + 2 rows, all with an email and a name
RoundsTables == {[j \in 1..n |-> MakeRow(j, 1)] : n \in 0..(MaxRows + 2)}

\* one rule, no excludes, no search condition
RoundsDefinitions ==
    [table : {"users"},
     fields : {<<[column |-> "email", provider |-> "md5", append |-> <<>>]>>},
     excludes : {<<>>}, search : {"none"}, primary_key : {"id"},
     chunk_size : 1..MaxChunk]

InitRounds ==
    \E rows \in RoundsTables, td \in RoundsDefinitions : Called(Database(rows), <<td>>)

\* the statements of the control thread other than import_data
Control ==
    \/ GetTableCount
    \/ CursorExecute
    \/ CreateTemporaryTable
    \/ LoopExhausted
    \/ Fetch
    \/ CreateIndex
    \/ Update
    \/ CursorClose

\* the workers of parmap.map
Workers == \E j \in 1..MaxChunk : ProcessRow(j)

\* import_data, with or without a failure of the database
Import == \E fault \in {"none", "OperationalError"} : ImportData(fault)

\* weak fairness of Import, written out: Import can be taken exactly when
\* parmap.map has returned
ImportGoesOn ==
    \/ []<>(~(pc = "parmap.map" /\ MapReturned(data)))
    \/ []<><<Import>>_vars

\* the control thread and the workers go on as long as they can
SpecRounds ==
    InitRounds /\ [][Next]_vars /\ WF_vars(Control) /\ WF_vars(Workers) /\ ImportGoesOn

\* ------------------------------------------------- a text primary key
\* the values of the column code
KeyCodes == {<<"k">>, <<"k", QUOTECHAR>>, <<SP, "k">>}

\* tables of fewer than MaxRows rows, each row with a code of its own
KeyTables ==
    UNION {{[j \in 1..n |-> [MakeRow(j, 1) EXCEPT !["code"] = Text(c[j])]] :
              c \in {f \in [1..n -> KeyCodes] :
                        \A i \in 1..n : \A j \in 1..n : f[i] = f[j] => i = j}} :
           n \in 0..(MaxRows - 1)}

\* definitions whose primary_key is the integer id or the text code
KeyDefinitions ==
    [table : {"users"},
     fields : {<<[column |-> "email", provider |-> "md5", append |-> <<>>]>>},
     excludes : {<<>>, <<[column |-> "email", patterns |-> <<<<"x">>>>]>>},
     search : {"none"}, primary_key : {"id", "code"}, chunk_size : 1..MaxChunk]

InitKey ==
    \E rows \in KeyTables, td \in KeyDefinitions : Called(Database(rows), <<td>>)

SpecKey == InitKey /\ [][Next]_vars

\* ------------------------------------------ the claims on error handling
\* the errors process_row raises
TransformErrors == {"KeyError", "TypeError", "re.error", "ConfigurationError"}

\* C11: when the transformation of a row of a batch has raised, the last
\* statement sent on the connection is the FETCH of that batch (no bulk load
\* of it was started, no further batch fetched), one bulk load was run for
\* each earlier batch only, no row of the batch is in the staging table, no
\* CREATE INDEX and no UPDATE was sent, and the source table is as it was.
C11_BatchAborted ==
    error \in TransformErrors =>
        /\ log # <<>>
        /\ log[Len(log)].op = "FETCH"
        /\ Cardinality(Ops("COPY")) = Cardinality(Ops("FETCH")) - 1
        /\ \A j \in 1..Len(records) :
              \A k \in 1..Len(Staging) : Staging[k][1] # records[j][1]
        /\ Ops("CREATE INDEX") = {}
        /\ Ops("UPDATE") = {}
        /\ Source = Original

\* an unknown provider is met in a batch another row of which was transformed,
\* after an earlier batch was staged
C11_Witness ==
    /\ pc = "raised"
    /\ error = "ConfigurationError"
    /\ Staging # <<>>
    /\ \E j \in 1..Len(data) : data[j].result = "row"

\* C12: an unknown provider name or an invalid regular expression is raised
\* before the cursor is opened, before the staging table is created and
\* before any batch is fetched.
C12_DefinitionErrorsFirst ==
    error \in {"ConfigurationError", "re.error"} =>
        /\ Ops("DECLARE") = {}
        /\ Ops("CREATE TEMP TABLE") = {}
        /\ Ops("FETCH") = {}

\* the definitions after the current one whose table no definition up to the
\* current one names
NotReached ==
    {d \in (current + 1)..Len(definitions) :
        \A e \in 1..current : definitions[e].table # definitions[d].table}

\* a step of one call of anonymize_tables
InCall == pc # "done"

\* C13: the definitions are processed one after another in list order: the
\* loop moves to the next definition only from the one before it, once that
\* table's UPDATE has been sent and its cursor closed; every statement is for
\* the current table and a step changes the rows of no other table; an error
\* leaves anonymize_tables with the definitions after the failed one not
\* processed, their tables as they were.
C13_OneAfterAnother ==
    /\ [](pc = "raised" =>
            /\ error # "none"
            /\ \A d \in NotReached :
                  /\ tables[definitions[d].table] = before[definitions[d].table]
                  /\ \A k \in 1..Len(log) : log[k].table # definitions[d].table)
    /\ [][ /\ (InCall /\ current' # current) =>
                /\ current' = current + 1
                /\ Len(log) >= 1
                /\ log[Len(log)].op = "UPDATE"
                /\ log[Len(log)].table = Table
                /\ log' = Append(log, [op |-> "CLOSE", table |-> Table, rows |-> 0])
                /\ ~cursor'.open
           /\ log' # log => /\ log' = Append(log, log'[Len(log')])
                             /\ log'[Len(log')].table = Table
           /\ \A t \in TableNames \ {Table} : tables'[t] = tables[t]
           /\ pc' = "raised" => current' = current ]_vars

\* the second of two tables is aborted with rows in its staging table, after
\* the first table was merged
C13_Witness ==
    /\ pc = "raised"
    /\ current = 2
    /\ definitions[1].table # definitions[2].table
    /\ Staging # <<>>
    /\ tables[definitions[1].table] # before[definitions[1].table]
    /\ Source = Original

\* C18: on one connection, every processing of a table creates its staging
\* table (the CREATE TEMP TABLE of a table processed before does not fail),
\* and the loop starts with a staging table of zero rows.
C18_FreshStaging ==
    /\ error # "DuplicateTable"
    /\ (pc = "for" /\ round = 0) => (temp[TempName(Table)].exists /\ Staging = <<>>)

\* ------------------------------------------------------- determinism
\* what one source row becomes when it alone is read, transformed, encoded,
\* loaded and merged; neither the chunk size nor the other rows enter
FinalRow(orig) ==
    LET sel == SelectColumns(Definition)
        rec == [j \in 1..Len(sel) |-> orig[sel[j]]]
        r == process_row(rec, sel, Definition.fields, Definition.excludes)
        c == copy_from(<<r.row>>, SelectTypes(Definition), "none")
    IN  IF \/ ~Selected(orig, Definition.search)
           \/ r.result # "row"
           \/ c.raised # "none"
           \/ c.rows = <<>>
        THEN orig
        ELSE IF c.rows[1][1] # orig[Definition.primary_key] THEN orig
        ELSE SetColumns(orig, c.rows[1], sel)

\* C14: with the deterministic provider, a run that completes on a table no
\* other session writes to (the count is the table's row count) ends in the
\* table state that the source rows and the rules alone determine, row by
\* row: whatever the chunk size, the split into batches and the order in
\* which the workers finish.
C14_SameFinalState ==
    (pc = "done" /\ total_count = Len(Original)) =>
        Source = [k \in 1..Len(Original) |-> FinalRow(Original[k])]

\* a complete run of two batches, the first of two rows, that altered a row
\* and excluded another
C14_Witness ==
    /\ pc = "done"
    /\ total_count = Len(Original)
    /\ Definition.chunk_size = 2
    /\ round = 2
    /\ Source # Original
    /\ \E k \in 1..Len(Original) : WasFetched(Original[k]) /\ ExcludedRow(Original[k])

\* ------------------------------------------------------------ the rounds
\* the numbers of rows the FETCH statements of the current table returned
RECURSIVE FetchSizes(_)
FetchSizes(l) ==
    IF l = <<>> THEN <<>>
    ELSE (IF Head(l).op = "FETCH" /\ Head(l).table = Table THEN <<Head(l).rows>> ELSE <<>>)
         \o FetchSizes(Tail(l))

\* the number of rounds of a table of n rows read k at a time
Rounds(n, k) == IF n % k = 0 THEN n \div k ELSE n \div k + 1

\* the count was taken as the number of rows the table holds: no row was added
CountExact == total_count = Len(Original)

\* C15: for a table of N rows, chunk size k, no excludes and a count of N,
\* once the loop has ended there were exactly ceil(N/k) fetches, each of k
\* rows but the last, which has the rest; all N rows are in the staging
\* table; the UPDATE reports N rows; and every run comes to an end.
C15_Rounds ==
    /\ []((CountExact /\ LoopEnded) =>
            LET N == Len(Original)
                k == Definition.chunk_size
                sizes == FetchSizes(log)
            IN  /\ Len(sizes) = Rounds(N, k)
                /\ \A f \in 1..Len(sizes) :
                      sizes[f] = IF f < Len(sizes) \/ N % k = 0 THEN k ELSE N % k
                /\ Len(Staging) = N
                /\ \A j \in 1..N : IsStaged(Original[j])
                /\ \A u \in Ops("UPDATE") : log[u].rows = N)
    /\ <>(pc \in {"done", "raised"})

\* five rows read two at a time: fetches of 2, 2 and 1 rows, five rows merged
C15_Witness ==
    /\ pc = "done"
    /\ CountExact
    /\ Len(Original) = 5
    /\ Definition.chunk_size = 2
    /\ FetchSizes(log) = <<2, 2, 1>>
    /\ Len(Staging) = 5
    /\ \E u \in Ops("UPDATE") : log[u].rows = 5

\* ------------------------------------------------------- serialization
\* a worker of parmap.map is still transforming a row of the batch
WorkerBusy == \E j \in 1..Len(data) : data[j].result = "pending"

\* C16: the statements go out on the connection one at a time and only while
\* no worker is transforming a row; a step of a worker leaves the connection
\* alone (no statement, cursor, staging and source tables unchanged); the
\* COPY of a batch is sent once every row of the batch is transformed, and
\* a FETCH only when every batch fetched before has had its COPY.
C16_Serialized ==
    [][ /\ log' # log =>
            /\ log' = Append(log, log'[Len(log')])
            /\ ~WorkerBusy
        /\ (pc = "parmap.map" /\ data' # data) =>
            /\ pc' \in {"parmap.map", "raised"}
            /\ UNCHANGED <<log, cursor, temp, tables, last_copy, records>>
        /\ (log' # log /\ log'[Len(log')].op = "COPY") =>
            /\ pc = "parmap.map"
            /\ log[Len(log)].op = "FETCH"
            /\ Len(data) = Len(records)
            /\ \A j \in 1..Len(data) : data[j].result \in {"row", "None"}
        /\ (log' # log /\ log'[Len(log')].op = "FETCH") =>
            Cardinality(Ops("COPY")) = Cardinality(Ops("FETCH")) ]_vars

\* the COPY of a batch of two rows was sent, both rows transformed, and
\* another batch is still to be fetched
C16_Witness ==
    /\ log # <<>>
    /\ log[Len(log)].op = "COPY"
    /\ Len(data) = 2
    /\ \A j \in 1..Len(data) : data[j].result = "row"
    /\ round = 1
    /\ cursor.rows # <<>>

\* --------------------------------------------------------------- frame
\* the definition has a search condition and the row does not satisfy it
NotSearched(row) == Definition.search = "id > 1" /\ row["id"].n <= 1

\* the columns of the table no rule names
OtherColumns == {TableColumns[j] : j \in 1..Len(TableColumns)}
                    \ {RuleColumns[j] : j \in 1..Len(RuleColumns)}

\* C17: at every moment of a run the source table has its rows in place,
\* every column without a rule holds its original value, and a row that the
\* search condition does not select, that an exclude rule matches, or whose
\* primary key is not in the staging table, is as it was before the run.
C17_Frame ==
    /\ Len(Source) = Len(Original)
    /\ \A k \in 1..Len(Original) :
          /\ \A c \in OtherColumns : Source[k][c] = Original[k][c]
          /\ (\/ NotSearched(Original[k])
              \/ ExcludedRow(Original[k])
              \/ ~IsStaged(Original[k])) => Source[k] = Original[k]

\* a complete run with a search condition that merged a row, left an excluded
\* row alone, and left alone the first row, which has an email to alter
C17_Witness ==
    /\ pc = "done"
    /\ Definition.search = "id > 1"
    /\ Source # Original
    /\ ~NullOrEmpty(Original[1]["email"])
    /\ \E k \in 1..Len(Original) :
          ExcludedRow(Original[k]) /\ ~NotSearched(Original[k])

\* ------------------------------------------------------ the staged key
\* the source rows that were fetched and that no exclude rule matches
Survivors == {k \in 1..Len(Original) : WasFetched(Original[k]) /\ ~ExcludedRow(Original[k])}

\* C19: the primary key of every staged row is the primary key of a row that
\* was fetched, and the UPDATE joins every fetched row that is not excluded.
C19_KeyPreserved ==
    /\ \A j \in 1..Len(Staging) :
          \E f \in 1..Len(fetched) : fetched[f] = Staging[j][1]
    /\ \A u \in Ops("UPDATE") : log[u].rows = Cardinality(Survivors)

\* ---------------------------------------------------------- the cursor
\* C20: once build_and_then_import_data has returned or raised, the cursor
\* it opened is closed.
C20_CursorClosed == pc \in {"done", "raised"} => ~cursor.open

====
